---- MODULE Spec2Model ----
(***************************************************************************)
(* Model of the url-normalizer crate (src/src/lib.rs).                     *)
(*                                                                         *)
(* The crate is a set of pure functions over an owned url::Url value:      *)
(* normalize_query, normalize_hash, normalize_scheme and their composition *)
(* normalize.  The model keeps one URL value that a caller threads through *)
(* calls of these functions, and records the argument and the result of    *)
(* the last call; SpecTwin normalizes two Urls that hold the same query    *)
(* pairs in different orders.  Strings are sequences of bytes, so that the *)
(* comparator                                                              *)
(* (length, then byte-wise order), the percent-decoding done by            *)
(* Url::query_pairs and the percent-encoding done by append_pair are       *)
(* computed as the code computes them.                                     *)
(***************************************************************************)
EXTENDS Integers, Sequences, FiniteSets, TLC

VARIABLES
    arg,      \* the Url moved into the call in progress / the last call
    ret,      \* the value the last completed call returned: [ok, url]
    op,       \* the function that returned ret ("parse" for the initial Url)
    prevOp,   \* the function that returned the value before ret
    pc,       \* position inside normalize: "idle", "l42" or "l43"
    local,    \* the binding `url` inside normalize while it runs
    arg2,     \* a second Url, equal to arg up to the order of its query pairs
    ret2      \* what the function returned for arg2

vars == <<arg, ret, op, prevOp, pc, local, arg2, ret2>>

-----------------------------------------------------------------------------
(* Bounds of the model.                                                    *)

\* The longest query (number of key=value pairs) of an input Url.
MaxPairs == 3

-----------------------------------------------------------------------------
(* Byte strings.                                                           *)

None == "None"

\* "b", "aa", "[" and "1", "2" as bytes
Str_b == <<98>>
Str_aa == <<97, 97>>
Str_lbr == <<91>>
Str_1 == <<49>>
Str_2 == <<50>>

Reverse(s) == [i \in 1..Len(s) |-> s[Len(s) + 1 - i]]

\* Ordering of Rust's String (byte-wise lexicographic): a.cmp(b) at line 34
RECURSIVE str_cmp(_, _)
str_cmp(a, b) ==
    IF a = <<>> /\ b = <<>> THEN "Equal"
    ELSE IF a = <<>> THEN "Less"
    ELSE IF b = <<>> THEN "Greater"
    ELSE IF a[1] < b[1] THEN "Less"
    ELSE IF a[1] > b[1] THEN "Greater"
    ELSE str_cmp(Tail(a), Tail(b))

\* fn cmp_string(a, b): length first, then the strings themselves
cmp_string(a, b) ==
    IF Len(a) < Len(b) THEN "Less"
    ELSE IF Len(a) > Len(b) THEN "Greater"
    ELSE str_cmp(a, b)

\* struct Pair { key, value }
Pair(k, v) == [key |-> k, value |-> v]

\* impl Ord for Pair / impl PartialOrd for Pair: the key alone decides
Pair_cmp(p, q) == cmp_string(p.key, q.key)
Pair_le(p, q) == Pair_cmp(p, q) # "Greater"
Pair_lt(p, q) == Pair_cmp(p, q) = "Less"
Pair_ge(p, q) == Pair_cmp(p, q) # "Less"

-----------------------------------------------------------------------------
(* Percent-encoding of the query, as url::form_urlencoded does it.         *)

HexVal(b) ==
    IF b \in 48..57 THEN b - 48
    ELSE IF b \in 65..70 THEN b - 55
    ELSE IF b \in 97..102 THEN b - 87
    ELSE -1

HexDigit(n) == IF n < 10 THEN 48 + n ELSE 55 + n

\* query_pairs(): "%XY" becomes the byte XY, any other byte is kept
RECURSIVE percent_decode(_)
percent_decode(s) ==
    IF s = <<>> THEN <<>>
    ELSE IF s[1] = 37 /\ Len(s) >= 3 /\ HexVal(s[2]) >= 0 /\ HexVal(s[3]) >= 0
        THEN <<HexVal(s[2]) * 16 + HexVal(s[3])>> \o percent_decode(SubSeq(s, 4, Len(s)))
    ELSE <<s[1]>> \o percent_decode(Tail(s))

\* query_pairs(): "+" stands for a space
decode(s) == percent_decode([i \in 1..Len(s) |-> IF s[i] = 43 THEN 32 ELSE s[i]])

\* append_pair(): bytes of *-._0-9A-Za-z are kept, a space becomes "+",
\* every other byte becomes "%XY"
Unreserved(b) ==
    b \in (48..57) \cup (65..90) \cup (97..122) \cup {42, 45, 46, 95}

RECURSIVE byte_serialize(_)
byte_serialize(s) ==
    IF s = <<>> THEN <<>>
    ELSE (IF Unreserved(s[1]) THEN <<s[1]>>
          ELSE IF s[1] = 32 THEN <<43>>
          ELSE <<37, HexDigit(s[1] \div 16), HexDigit(s[1] % 16)>>)
         \o byte_serialize(Tail(s))

-----------------------------------------------------------------------------
(* The parsed Url.                                                         *)

\* scheme, host (None: no authority), path, query (None or the raw pairs,
\* as serialized), fragment (None or its text)
Url(s, h, p, hq, q, f) ==
    [scheme |-> s, host |-> h, path |-> p, has_query |-> hq, query |-> q,
     fragment |-> f]

\* Url::query_pairs(): the decoded pairs, in the order of the query
query_pairs(url) ==
    [i \in 1..Len(url.query) |->
        Pair(decode(url.query[i].key), decode(url.query[i].value))]

\* a clear() that truncates the serialization at "?", fragment included
query_clear_truncate(url) ==
    [url EXCEPT !.has_query = TRUE, !.query = <<>>, !.fragment = None]

\* Url::query_pairs_mut().clear(): an empty query "?", the fragment is kept
query_clear(url) == [url EXCEPT !.has_query = TRUE, !.query = <<>>]

\* Url::query_pairs_mut().append_pair(key, value)
append_pair(url, key, value) ==
    [url EXCEPT !.has_query = TRUE,
                !.query = @ \o <<Pair(byte_serialize(key), byte_serialize(value))>>]

\* set_fragment(Some("")) in place of set_fragment(None): "#" stays
set_fragment_empty(url) == [url EXCEPT !.fragment = ""]

\* Url::set_fragment(None)
set_fragment_none(url) == [url EXCEPT !.fragment = None]

\* The schemes the url crate calls special
Special == {"http", "https", "ftp", "ws", "wss", "gopher", "file"}

\* No Url value: the place of a Url that was moved away or never returned
NoUrl == [moved |-> TRUE]

\* Result<Url,()>
Ok(url) == [ok |-> TRUE, url |-> url]
Err == [ok |-> FALSE, url |-> NoUrl]

\* Url::set_scheme(scheme): refused for a Url without a host when the new
\* scheme is special
set_scheme(url, scheme) ==
    IF url.host = None /\ scheme \in Special THEN Err
    ELSE Ok([url EXCEPT !.scheme = scheme])

-----------------------------------------------------------------------------
(* std::collections::BinaryHeap<Pair>, a max-heap kept in a vector.        *)
(* Positions are counted from 0 as in the vector; At and Put translate.    *)

At(data, pos) == data[pos + 1]
Put(data, pos, x) == [data EXCEPT ![pos + 1] = x]

\* BinaryHeap::sift_down: the element taken out of `hole` moves down while
\* its greater child (the right one when the two are equal) is greater
RECURSIVE sift_down_range(_, _, _, _)
sift_down_range(data, elt, hole, end) ==
    LET child == 2 * hole + 1 IN
    IF child + 1 < end
    THEN LET c == IF Pair_le(At(data, child), At(data, child + 1))
                  THEN child + 1 ELSE child
         IN  IF Pair_ge(elt, At(data, c)) THEN Put(data, hole, elt)
             ELSE sift_down_range(Put(data, hole, At(data, c)), elt, c, end)
    ELSE IF child = end - 1 /\ Pair_lt(elt, At(data, child))
         THEN Put(Put(data, hole, At(data, child)), child, elt)
    ELSE Put(data, hole, elt)

sift_down(data, pos) == sift_down_range(data, At(data, pos), pos, Len(data))

\* BinaryHeap::rebuild: n = len / 2; while n > 0 { n -= 1; sift_down(n) }
RECURSIVE rebuild(_, _)
rebuild(data, n) ==
    IF n = 0 THEN data ELSE rebuild(sift_down(data, n - 1), n - 1)

\* .collect::<BinaryHeap<Pair>>(): the pairs as a vector, then heapified
BinaryHeap_collect(pairs) == rebuild(pairs, Len(pairs) \div 2)

\* query_pairs.iter().rev(): the heap's vector, last position first
BinaryHeap_iter_rev(heap) == Reverse(heap)

-----------------------------------------------------------------------------
(* The functions of the crate.                                             *)

\* for pair in ... { url.query_pairs_mut().append_pair(&pair.key, &pair.value) }
RECURSIVE append_all(_, _)
append_all(url, pairs) ==
    IF pairs = <<>> THEN url
    ELSE append_all(append_pair(url, pairs[1].key, pairs[1].value), Tail(pairs))

\* normalize_query without line 56: the sorted pairs follow the old ones
normalize_query_no_clear(url) ==
    LET heap == BinaryHeap_collect(query_pairs(url))
    IN  append_all(url, BinaryHeap_iter_rev(heap))

\* pub fn normalize_query(mut url: Url) -> Url
normalize_query(url) ==
    LET heap == BinaryHeap_collect(query_pairs(url))
    IN  append_all(query_clear(url), BinaryHeap_iter_rev(heap))

\* a normalize_hash that rewrites the query while it drops the fragment
normalize_hash_rebuild(url) == set_fragment_none(normalize_query(url))

\* pub fn normalize_hash(mut url: Url) -> Url
normalize_hash(url) == set_fragment_none(url)

\* the match with a wrong arm: "wss" => Some("http")
new_scheme_wss_http(scheme) ==
    CASE scheme = "https" -> "http"
      [] scheme = "shttp" -> "http"
      [] scheme = "sftp" -> "ftp"
      [] scheme = "wss" -> "http"
      [] OTHER -> None

\* the match with a default arm that maps: _ => Some("http")
new_scheme_default_http(scheme) ==
    CASE scheme = "https" -> "http"
      [] scheme = "shttp" -> "http"
      [] scheme = "sftp" -> "ftp"
      [] scheme = "wss" -> "ws"
      [] OTHER -> "http"

\* the match of normalize_scheme: Some(new scheme) or None
new_scheme(scheme) ==
    CASE scheme = "https" -> "http"
      [] scheme = "shttp" -> "http"
      [] scheme = "sftp" -> "ftp"
      [] scheme = "wss" -> "ws"
      [] OTHER -> None

\* pub fn normalize_scheme(mut url: Url) -> Result<Url,()>
normalize_scheme(url) ==
    IF new_scheme(url.scheme) # None
    THEN LET set == set_scheme(url, new_scheme(url.scheme))
         IN  IF set.ok THEN Ok(set.url) ELSE Err
    ELSE Ok(url)

\* pub fn normalize(url: Url) -> Result<Url,()>
normalize(url) ==
    LET url1 == normalize_query(url)
        url2 == normalize_hash(url1)
    IN  normalize_scheme(url2)

-----------------------------------------------------------------------------
(* The Urls a caller can hold after Url::parse.                            *)

Host == "example.com"

\* scheme and host: a special scheme always comes with a host
SchemeHosts ==
    {<<"https", Host>>, <<"wss", Host>>, <<"ftp", Host>>,
     <<"shttp", Host>>, <<"shttp", None>>, <<"sftp", Host>>, <<"sftp", None>>,
     <<"mailto", None>>}

\* the raw key=value pairs of the input queries: b=1, b=2, [=1, aa=1
RawPairs ==
    {Pair(Str_b, Str_1), Pair(Str_b, Str_2), Pair(Str_lbr, Str_1),
     Pair(Str_aa, Str_1)}

Queries == UNION {[1..k -> RawPairs] : k \in 0..MaxPairs}

Fragments == {None, "hash"}

ParsedUrls ==
    {Url(sh[1], sh[2], "/", hq, q, f) :
        sh \in SchemeHosts, q \in Queries, f \in Fragments, hq \in {TRUE}}
    \cup
    {Url(sh[1], sh[2], "/", FALSE, <<>>, f) : sh \in SchemeHosts, f \in Fragments}

Reorderings(n) == {p \in [1..n -> 1..n] : \A i, j \in 1..n : p[i] = p[j] => i = j}

-----------------------------------------------------------------------------
(* One caller threading a Url through the functions.                       *)

Init ==
    /\ arg \in ParsedUrls
    /\ ret = Ok(arg)
    /\ op = "parse"
    /\ prevOp = "parse"
    /\ pc = "idle"
    /\ local = NoUrl
    /\ arg2 = NoUrl
    /\ ret2 = Err

\* a call of f that returns at once: the caller moves its Url into f
Call(f, result) ==
    /\ pc = "idle"
    /\ ret.ok
    /\ arg' = ret.url
    /\ ret' = result
    /\ prevOp' = op
    /\ op' = f
    /\ UNCHANGED <<pc, local, arg2, ret2>>

CallNormalizeQuery == Call("normalize_query", Ok(normalize_query(ret.url)))

CallNormalizeHash == Call("normalize_hash", Ok(normalize_hash(ret.url)))

CallNormalizeScheme == Call("normalize_scheme", normalize_scheme(ret.url))

\* normalize, line 41: let url = normalize_query(url);
NormalizeL41 ==
    /\ pc = "idle"
    /\ ret.ok
    /\ arg' = ret.url
    /\ local' = normalize_query(ret.url)
    /\ pc' = "l42"
    /\ UNCHANGED <<ret, op, prevOp, arg2, ret2>>

\* normalize, line 42: let url = normalize_hash(url);
NormalizeL42 ==
    /\ pc = "l42"
    /\ local' = normalize_hash(local)
    /\ pc' = "l43"
    /\ UNCHANGED <<arg, ret, op, prevOp, arg2, ret2>>

\* line 43 with the error swallowed: the Url as it is when set_scheme refuses
NormalizeL43_best_effort ==
    /\ pc = "l43"
    /\ ret' = (IF normalize_scheme(local).ok THEN normalize_scheme(local) ELSE Ok(local))
    /\ prevOp' = op
    /\ op' = "normalize"
    /\ pc' = "idle"
    /\ local' = NoUrl
    /\ UNCHANGED <<arg, arg2, ret2>>

\* normalize, line 43: return normalize_scheme(url);
NormalizeL43 ==
    /\ pc = "l43"
    /\ ret' = normalize_scheme(local)
    /\ prevOp' = op
    /\ op' = "normalize"
    /\ pc' = "idle"
    /\ local' = NoUrl
    /\ UNCHANGED <<arg, arg2, ret2>>

Next ==
    \/ CallNormalizeQuery
    \/ CallNormalizeHash
    \/ CallNormalizeScheme
    \/ NormalizeL41
    \/ NormalizeL42
    \/ NormalizeL43

Spec == Init /\ [][Next]_vars

-----------------------------------------------------------------------------
(* Two callers holding Urls that differ only in the order of the query.    *)

InitTwin ==
    /\ arg \in ParsedUrls
    /\ \E p \in Reorderings(Len(arg.query)) :
          arg2 = [arg EXCEPT !.query = [i \in 1..Len(arg.query) |-> arg.query[p[i]]]]
    /\ ret = Ok(arg)
    /\ ret2 = Ok(arg2)
    /\ op = "parse"
    /\ prevOp = "parse"
    /\ pc = "idle"
    /\ local = NoUrl

TwinCall(f, result, result2) ==
    /\ op = "parse"
    /\ ret' = result
    /\ ret2' = result2
    /\ prevOp' = op
    /\ op' = f
    /\ UNCHANGED <<arg, arg2, pc, local>>

TwinNormalizeQuery ==
    TwinCall("normalize_query", Ok(normalize_query(arg)), Ok(normalize_query(arg2)))

TwinNormalize == TwinCall("normalize", normalize(arg), normalize(arg2))

NextTwin == TwinNormalizeQuery \/ TwinNormalize

SpecTwin == InitTwin /\ [][NextTwin]_vars

-----------------------------------------------------------------------------
(* Vocabulary of the properties.                                           *)

\* f has returned ret for arg, and no call is in progress
Returned(f) == pc = "idle" /\ op = f

\* a before b in the canonical order of the keys: shorter first, then
\* byte-wise lexicographic
LexLess(a, b) ==
    \E k \in 1..Len(b) :
        /\ \A i \in 1..(k - 1) : i <= Len(a) /\ a[i] = b[i]
        /\ (k > Len(a) \/ a[k] < b[k])

CanonicalBefore(a, b) ==
    Len(a) < Len(b) \/ (Len(a) = Len(b) /\ LexLess(a, b))

Occurrences(s, x) == Cardinality({i \in 1..Len(s) : s[i] = x})

SameMultiset(s, t) ==
    /\ Len(s) = Len(t)
    /\ \A i \in 1..Len(s) : Occurrences(s, s[i]) = Occurrences(t, s[i])

\* the table of the scheme downgrade
SchemeTable ==
    {<<"https", "http">>, <<"shttp", "http">>, <<"sftp", "ftp">>, <<"wss", "ws">>}

Mapped == {m[1] : m \in SchemeTable}

\* everything but the query is the same in the two Urls
SameButQuery(u, v) ==
    /\ u.scheme = v.scheme
    /\ u.host = v.host
    /\ u.path = v.path
    /\ u.fragment = v.fragment

-----------------------------------------------------------------------------
(* The claims.                                                             *)

\* C1: in the query of normalize_query(u), of any two pairs with distinct
\* keys a and b, a comes before b if and only if a is shorter than b, or as
\* long as b and byte-wise smaller.
C1_OrderingLaw ==
    Returned("normalize_query") =>
        LET out == query_pairs(ret.url) IN
        \A i, j \in 1..Len(out) :
            out[i].key # out[j].key =>
                (i < j <=> CanonicalBefore(out[i].key, out[j].key))

\* C2: two Urls that differ only in the order of their query pairs have the
\* same query pair sequence after normalize_query, and the same result of
\* normalize.
C2_OrderInsensitive ==
    /\ op = "normalize_query" => query_pairs(ret.url) = query_pairs(ret2.url)
    /\ op = "normalize" => ret = ret2

\* C3: the query of normalize_query(u) holds the same multiset of (key,
\* value) pairs as the query of u: nothing dropped, added, altered or merged.
C3_MultisetPreserved ==
    Returned("normalize_query") =>
        /\ ret.ok
        /\ SameMultiset(query_pairs(ret.url), query_pairs(arg))

\* C3 witness: a query with a repeated pair was normalized and its text changed
C3_Witness ==
    /\ Returned("normalize_query")
    /\ \E i, j \in 1..Len(arg.query) : i # j /\ arg.query[i] = arg.query[j]
    /\ ret.url.query # arg.query

\* C4 as stated: for every Url with scheme https, shttp, sftp or wss,
\* normalize_scheme returns Ok with the scheme http, http, ftp, ws and
\* everything else unchanged.
C4_AlwaysOk ==
    Returned("normalize_scheme") =>
        \A m \in SchemeTable :
            arg.scheme = m[1] => ret = Ok([arg EXCEPT !.scheme = m[2]])

\* C4 amended: for a Url with scheme https, shttp, sftp or wss that has a
\* host, normalize_scheme returns Ok with the scheme http, http, ftp, ws
\* and everything else unchanged; for one without a host set_scheme refuses
\* the new scheme and normalize_scheme returns the error, and no Url.
C4_DowngradeOrError ==
    Returned("normalize_scheme") =>
        \A m \in SchemeTable :
            arg.scheme = m[1] =>
                IF arg.host # None
                THEN ret = Ok([arg EXCEPT !.scheme = m[2]])
                ELSE ret = Err

\* C4 witness: sftp with a host, a query and a fragment was downgraded
C4_Witness ==
    /\ Returned("normalize_scheme")
    /\ arg.scheme = "sftp"
    /\ ret.ok
    /\ Len(arg.query) >= 2
    /\ arg.fragment # None

\* C5: for a Url whose scheme is not https, shttp, sftp or wss,
\* normalize_scheme returns Ok with the Url as it was given, scheme included.
C5_SchemeTotality ==
    Returned("normalize_scheme") /\ arg.scheme \notin Mapped => ret = Ok(arg)

\* C5 witness: a mailto Url, which has no host, went through normalize_scheme
C5_Witness ==
    /\ Returned("normalize_scheme")
    /\ arg.scheme = "mailto"
    /\ arg.host = None
    /\ arg.query # <<>>

\* C6: normalize runs normalize_query, then normalize_hash, then
\* normalize_scheme, and returns what normalize_scheme returns: the Url, or
\* the error without any Url; it fails exactly when set_scheme refuses.
C6_Pipeline ==
    /\ pc = "l42" => local = normalize_query(arg)
    /\ pc = "l43" => local = normalize_hash(normalize_query(arg))
    /\ Returned("normalize") =>
        /\ ret = normalize_scheme(normalize_hash(normalize_query(arg)))
        /\ ~ret.ok <=> (arg.scheme \in Mapped /\ arg.host = None)
        /\ ~ret.ok => ret.url = NoUrl

\* C6 witness: normalize returned the error of the scheme stage
C6_Witness ==
    /\ Returned("normalize")
    /\ ~ret.ok
    /\ Len(arg.query) >= 2
    /\ arg.fragment # None

\* C7: normalize_hash(u) has no fragment and the scheme, host, path and
\* query (the same pairs, in the same order) of u; it never fails.
C7_FragmentRemoved ==
    Returned("normalize_hash") =>
        /\ ret.ok
        /\ ret.url.fragment = None
        /\ ret.url.scheme = arg.scheme
        /\ ret.url.host = arg.host
        /\ ret.url.path = arg.path
        /\ ret.url.has_query = arg.has_query
        /\ ret.url.query = arg.query

\* C7 witness: a Url with a fragment and a query lost its fragment
C7_Witness ==
    /\ Returned("normalize_hash")
    /\ arg.fragment # None
    /\ Len(arg.query) >= 2

\* C8: normalize_query(u) has the scheme, host, path and fragment of u.
C8_QueryFrame ==
    Returned("normalize_query") => ret.ok /\ SameButQuery(ret.url, arg)

\* C8 witness: the query of a Url with a fragment was rewritten
C8_Witness ==
    /\ Returned("normalize_query")
    /\ arg.fragment # None
    /\ ret.url.query # arg.query

\* C9: normalize_hash applied to a result of normalize_hash returns it
\* unchanged.
C9_HashIdempotent ==
    Returned("normalize_hash") /\ prevOp = "normalize_hash" => ret = Ok(arg)

\* C9 witness: normalize_hash was called twice in a row on a Url with a query
C9_Witness ==
    /\ Returned("normalize_hash")
    /\ prevOp = "normalize_hash"
    /\ Len(arg.query) >= 2

\* C10: normalize applied to a Url that normalize returned returns that Url.
C10_NormalizeIdempotent ==
    Returned("normalize") /\ prevOp = "normalize" => ret = Ok(arg)

====
